---- MODULE Spec2Model ----
(***************************************************************************)
(* ThreeSistersSVF (src/src/audio/ThreeSistersSVF.js): the facade node on  *)
(* the control side, the message port, and ThreeSistersSVFProcessor on the *)
(* rendering side; SimpleThreeBandFilter (src/unnamed/part_000), the       *)
(* fallback; and, from src/old-script.js, the synth filter selection of    *)
(* generateSoundscape, cleanupAudio, the stop button and                   *)
(* applySynthFilterSettings.  A generateSoundscape call is followed from   *)
(* line 1744 on; call c constructs ThreeSistersSVF instance c and          *)
(* SimpleThreeBandFilter instance c.                                       *)
(*                                                                         *)
(* Units.  Frequencies (center, span, band frequencies, sampleRate) are    *)
(* integers in Hz.  q and feedback are fixed-point integers in units of    *)
(* 1/QUnit, so q = 8 is 80000 and feedback = 0.05 is 500.  alpha2 is kept  *)
(* as an exact fraction [num, den].  The alpha1 coefficient of a band is   *)
(* 2*sin(pi*f/sampleRate); the model keeps its frequency argument f, with  *)
(* f = 0 for the constructor's alpha1 = 0.                                 *)
(* Samples, integrator states and alpha1 values are fixed-point integers   *)
(* in units of 1/DspUnit.                                                  *)
(***************************************************************************)
EXTENDS Integers, Sequences, FiniteSets, TLC

\* ---------------------------------------------------------------- bounds
NumInst == 2
MaxCalls == 2
MaxBlocks == 2
MaxAmp == 5000
NumCtx == 2

\* ------------------------------------------------------------- constants
QUnit == 10000
FreqFloor == 20
NyqPercent == 45
QFloor == 1
DspUnit == 1000
SimpleFreqFloor == 20
SimpleQFloor == 5000
NoContextNyquist == 20000
SynthFilterFrequencyMin == 80
SynthFilterFrequencyMax == 6000
SynthFilterSpanMin == 40
SynthFilterSpanMax == 1800
SynthFilterQMin == 20000
SynthFilterQMax == 300000
SynthFilterDefaultFeedback == 800

Inst == 1..NumInst
Solo == {1}
Fields == {"center", "span", "q", "feedback"}
SampleRates == {44100, 48000}

\* values a caller hands to the setters
CenterVals == {5, 30000}
SpanVals == {-100, 25000}
QVals == {-10000, 0, 5000}
FeedbackVals == {-5000, 20000}
UpdateArgs == {<<1000, 100>>, <<5, -100>>}

\* option objects a caller hands to the constructor
OptionSets ==
  { << >>,
    [center |-> 1000, span |-> 100, q |-> 20000, feedback |-> 2500] }

Max(a, b) == IF a >= b THEN a ELSE b
Min(a, b) == IF a <= b THEN a ELSE b

defaults == [center |-> 600, span |-> 300, q |-> 80000, feedback |-> 500]

\* Object.assign({}, defaults, options)
MergeOptions(o) == [f \in Fields |-> IF f \in DOMAIN o THEN o[f] ELSE defaults[f]]

NoOptions == [f \in Fields |-> 0]
NoFraction == [num |-> 0, den |-> 1]
NoBlock == [ran |-> FALSE, centreFreq |-> 0, span |-> 0, alpha2 |-> NoFraction,
            feedback |-> 0, lowF |-> 0, centreF |-> 0, highF |-> 0]

\* fields of a ThreeSistersSVFProcessor right after its constructor; the
\* integrator states are fixed-point numbers in units of 1/DspUnit
NewProcessor ==
  [lowS1 |-> 0, lowS2 |-> 0, centreS1 |-> 0, centreS2 |-> 0,
   highS1 |-> 0, highS2 |-> 0,
   lowF |-> 0, centreF |-> 0, highF |-> 0,
   alpha2 |-> [num |-> 1, den |-> 8],
   feedback |-> 500,
   span |-> 300,
   centreFreq |-> 600,
   recalc |-> TRUE]

\* the local variables of process outside a call
NoLocals ==
  [lowS1 |-> 0, lowS2 |-> 0, centreS1 |-> 0, centreS2 |-> 0,
   highS1 |-> 0, highS2 |-> 0, lowA |-> 0, centreA |-> 0, highA |-> 0,
   alpha2 |-> NoFraction, fb |-> 0]

\* no process call in flight, none made yet
IdleRun ==
  [at |-> "idle", k |-> 0, inCh |-> << >>, outCh |-> << >>, ret |-> "none",
   last |-> "none", recalcs |-> 0, L |-> NoLocals]

SimpleFields == {"center", "span", "q"}
simpleDefaults == [center |-> 600, span |-> 300, q |-> 80000]

\* no SimpleThreeBandFilter constructed yet
NoSimple ==
  [made |-> 0, disposed |-> FALSE, ready |-> "none",
   options |-> [f \in SimpleFields |-> 0],
   low |-> 0, centre |-> 0, high |-> 0, lowQ |-> 0, centreQ |-> 0, highQ |-> 0]

\* a generateSoundscape call that has not reached its filter selection
NoCall ==
  [gpc |-> "idle", fromSetup |-> FALSE, supportsSVF |-> FALSE,
   settings |-> [f \in SimpleFields |-> 0], filterNode |-> "none",
   svfMade |-> 0, simpleTried |-> 0, caught |-> 0]

\* synthFilter = null
NoFilter == [kind |-> "none", of |-> 0]

\* no generateSoundscape call under way, isSetup false, synthFilter null; a
\* page whose context resolves and offers an audio worklet
NoApp ==
  [raw |-> TRUE, worklet |-> TRUE, toneWorklet |-> TRUE,
   simpleThrows |-> FALSE, isSetup |-> FALSE, synthFilter |-> NoFilter,
   synthFilterIsSVF |-> FALSE, call |-> [c \in Inst |-> NoCall]]

\* audio contexts Tone.getContext() can return
Contexts == 1..NumCtx

\* Tone's context is context 1, no instance has read it, no module registered
NoContexts ==
  [tone |-> 1, of |-> [i \in Inst |-> 0], registered |-> {},
   tried |-> [i \in Inst |-> FALSE]]

\* no block rendered since the last update message
NoStreak == [L0 |-> NoLocals, ins |-> << >>, outs |-> << >>]

VARIABLES
  sampleRate,      \* the global sampleRate of the rendering context
  workletLoaded,   \* ThreeSistersSVF._workletLoaded
  addModuleCalls,  \* number of audioWorklet.addModule invocations
  ctx,             \* Tone's context, each instance's context, the registrations
  pc,              \* position of each instance's _initWorklet
  options,         \* this._options
  workletNode,     \* this._workletNode is non-null
  params,          \* values handed to the node's AudioParams
  connIn,          \* input -> worklet connection exists
  connOut,         \* worklet -> output connection exists
  disposed,        \* dispose() has been called
  port,            \* messages posted on the port, not yet delivered
  proc,            \* fields of the instance's processor
  blk,             \* what the last non-empty process call read
  nSet,            \* setter / update calls made on the instance
  setSince,        \* fields set while the worklet node existed
  early,           \* fields set before the worklet node existed
  calls,           \* setter / update calls made in total
  run,             \* the process call in flight, its output and return value
  blocks,          \* non-empty blocks rendered sample by sample so far
  streak,          \* blocks rendered sample by sample since the last update
  dlog,            \* the steps of the last dispose() call, in order
  simple,          \* the SimpleThreeBandFilter instances
  app              \* the generateSoundscape calls and the page's globals

vars == <<sampleRate, workletLoaded, addModuleCalls, ctx, pc, options, workletNode,
          params, connIn, connOut, disposed, port, proc, blk, nSet, setSince, early,
          calls, run, blocks, streak, dlog, simple, app>>

\* ------------------------------------------------------------- processor

\* Math.min(nyq, Math.max(20, f))
ClampFreq(f, sr) == Min((sr * NyqPercent) \div 100, Max(FreqFloor, f))

\* _updateCoefficients with the side bands taken from the unclamped centre
UpdateCoefficientsUnclamped(p, sr) ==
  LET centre == ClampFreq(p.centreFreq, sr)
      lowF   == ClampFreq(p.centreFreq - p.span, sr)
      highF  == ClampFreq(p.centreFreq + p.span, sr)
  IN  [p EXCEPT !.lowF = lowF, !.centreF = centre, !.highF = highF,
                !.recalc = FALSE]

\* _updateCoefficients
UpdateCoefficients(p, sr) ==
  LET centre == ClampFreq(p.centreFreq, sr)
      lowF   == ClampFreq(centre - p.span, sr)
      highF  == ClampFreq(centre + p.span, sr)
  IN  [p EXCEPT !.lowF = lowF, !.centreF = centre, !.highF = highF,
                !.recalc = FALSE]

\* 1 / Math.max(0.0001, q)
Alpha2Of(q) == [num |-> QUnit, den |-> Max(QFloor, q)]

\* port.onmessage with the span branch writing the centre frequency
OnMessageSwapped(p, data) ==
  IF data.type = "update"
  THEN [p EXCEPT
          !.centreFreq = IF "span" \in DOMAIN data THEN data.span
                         ELSE IF "center" \in DOMAIN data THEN data.center ELSE @,
          !.alpha2     = IF "q" \in DOMAIN data THEN Alpha2Of(data.q) ELSE @,
          !.feedback   = IF "feedback" \in DOMAIN data THEN data.feedback ELSE @,
          !.recalc     = TRUE]
  ELSE p

\* port.onmessage without this._recalc = true
OnMessageNoDirty(p, data) ==
  IF data.type = "update"
  THEN [p EXCEPT
          !.centreFreq = IF "center" \in DOMAIN data THEN data.center ELSE @,
          !.span       = IF "span" \in DOMAIN data THEN data.span ELSE @,
          !.alpha2     = IF "q" \in DOMAIN data THEN Alpha2Of(data.q) ELSE @,
          !.feedback   = IF "feedback" \in DOMAIN data THEN data.feedback ELSE @]
  ELSE p

\* port.onmessage without the test of data.type
OnMessageAnyType(p, data) ==
  [p EXCEPT
     !.centreFreq = IF "center" \in DOMAIN data THEN data.center ELSE @,
     !.span       = IF "span" \in DOMAIN data THEN data.span ELSE @,
     !.alpha2     = IF "q" \in DOMAIN data THEN Alpha2Of(data.q) ELSE @,
     !.feedback   = IF "feedback" \in DOMAIN data THEN data.feedback ELSE @,
     !.recalc     = TRUE]

\* a handler that also clears the integrator states on every update
OnMessageResetsState(p, data) ==
  IF data.type = "update"
  THEN [p EXCEPT
          !.centreFreq = IF "center" \in DOMAIN data THEN data.center ELSE @,
          !.span       = IF "span" \in DOMAIN data THEN data.span ELSE @,
          !.alpha2     = IF "q" \in DOMAIN data THEN Alpha2Of(data.q) ELSE @,
          !.feedback   = IF "feedback" \in DOMAIN data THEN data.feedback ELSE @,
          !.recalc     = TRUE,
          !.lowS1 = 0, !.lowS2 = 0, !.centreS1 = 0, !.centreS2 = 0,
          !.highS1 = 0, !.highS2 = 0]
  ELSE p

\* port.onmessage
OnMessage(p, data) ==
  IF data.type = "update"
  THEN [p EXCEPT
          !.centreFreq = IF "center" \in DOMAIN data THEN data.center ELSE @,
          !.span       = IF "span" \in DOMAIN data THEN data.span ELSE @,
          !.alpha2     = IF "q" \in DOMAIN data THEN Alpha2Of(data.q) ELSE @,
          !.feedback   = IF "feedback" \in DOMAIN data THEN data.feedback ELSE @,
          !.recalc     = TRUE]
  ELSE p

\* the head of the port's queue is the message delivered next
NextMessage(q) == Head(q)
RestMessages(q) == Tail(q)

\* delivery of one posted message to the processor; the handler runs on the
\* rendering thread between process calls, never inside one
Deliver(i) ==
  /\ pc[i] = "ready"
  /\ run[i].at = "idle"
  /\ port[i] # << >>
  /\ proc' = [proc EXCEPT ![i] = OnMessage(@, NextMessage(port[i]))]
  /\ port' = [port EXCEPT ![i] = RestMessages(@)]
  /\ streak' = IF NextMessage(port[i]).type = "update"
               THEN [streak EXCEPT ![i] = NoStreak]
               ELSE streak
  /\ UNCHANGED <<sampleRate, workletLoaded, addModuleCalls, ctx, pc, options,
                 workletNode, params, connIn, connOut, disposed, blk, nSet,
                 setSince, early, calls, run, blocks, dlog, simple, app>>

\* what process reads for a block, after the recalculation
BlockOf(p) ==
  [ran |-> TRUE, centreFreq |-> p.centreFreq, span |-> p.span,
   alpha2 |-> p.alpha2, feedback |-> p.feedback,
   lowF |-> p.lowF, centreF |-> p.centreF, highF |-> p.highF]

\* x / d rounded to the nearest integer, halves away from zero (d > 0)
RDiv(x, d) ==
  IF x >= 0 THEN (x + d \div 2) \div d ELSE -(((-x) + d \div 2) \div d)

\* product of two fixed-point numbers
Mul(x, y) == RDiv(x * y, DspUnit)

\* 2 * Math.sin(Math.PI * f / sampleRate) in units of 1/DspUnit, the sine by
\* Bhaskara's rational approximation sin(pi*t) = 16t(1-t) / (5 - 4t(1-t))
Alpha1Of(f, sr) ==
  LET r == (f * 10000) \div sr
      t == r * (10000 - r)
  IN  (32 * t) \div ((500000000 - 4 * t) \div DspUnit)

\* if (this._recalc) this._updateCoefficients(), never done
EnterBlockStale(p, sr) == p

\* if (this._recalc) this._updateCoefficients()
EnterBlock(p, sr) == IF p.recalc THEN UpdateCoefficients(p, sr) ELSE p

\* local copies that start every block from silent integrators
LocalsOfFresh(p, sr) ==
  [lowS1 |-> 0, lowS2 |-> 0, centreS1 |-> 0, centreS2 |-> 0,
   highS1 |-> 0, highS2 |-> 0,
   lowA |-> Alpha1Of(p.lowF, sr),
   centreA |-> Alpha1Of(p.centreF, sr),
   highA |-> Alpha1Of(p.highF, sr),
   alpha2 |-> p.alpha2,
   fb |-> p.feedback]

\* the local copies process takes before its loop
LocalsOf(p, sr) ==
  [lowS1 |-> p.lowS1, lowS2 |-> p.lowS2,
   centreS1 |-> p.centreS1, centreS2 |-> p.centreS2,
   highS1 |-> p.highS1, highS2 |-> p.highS2,
   lowA |-> Alpha1Of(p.lowF, sr),
   centreA |-> Alpha1Of(p.centreF, sr),
   highA |-> Alpha1Of(p.highF, sr),
   alpha2 |-> p.alpha2,
   fb |-> p.feedback]

\* one core: hp, bp, lp from its drive and its two integrators
CoreStep(a, alpha2, drive, s1, s2) ==
  LET hp == drive - s2 - RDiv(alpha2.num * s1, alpha2.den)
      bp == Mul(a, hp) + s1
      lp == Mul(a, bp) + s2
  IN  [bp |-> bp, lp |-> lp]

\* the loop body with each drive reading the band state just written in the
\* same sample
SampleStepSequential(L, x) ==
  LET sumBP       == L.lowS1 + L.centreS1 + L.highS1
      sharedDrive == x + RDiv(sumBP * L.fb, QUnit)
      driveLow    == sharedDrive + RDiv(L.highS1 * L.fb, QUnit)
      low    == CoreStep(L.lowA, L.alpha2, driveLow, L.lowS1, L.lowS2)
      driveCentre == sharedDrive + RDiv(low.bp * L.fb, QUnit)
      centre == CoreStep(L.centreA, L.alpha2, driveCentre, L.centreS1, L.centreS2)
      driveHigh   == sharedDrive + RDiv(centre.bp * L.fb, QUnit)
      high   == CoreStep(L.highA, L.alpha2, driveHigh, L.highS1, L.highS2)
  IN  [L |-> [L EXCEPT !.lowS1 = low.bp, !.lowS2 = low.lp,
                       !.centreS1 = centre.bp, !.centreS2 = centre.lp,
                       !.highS1 = high.bp, !.highS2 = high.lp],
       y |-> RDiv(low.bp + centre.bp + high.bp, 3)]

\* the loop body with the centre core reading the low core's second integrator
SampleStepCrossed(L, x) ==
  LET sumBP       == L.lowS1 + L.centreS1 + L.highS1
      sharedDrive == x + RDiv(sumBP * L.fb, QUnit)
      driveLow    == sharedDrive + RDiv(L.highS1 * L.fb, QUnit)
      driveCentre == sharedDrive + RDiv(L.lowS1 * L.fb, QUnit)
      driveHigh   == sharedDrive + RDiv(L.centreS1 * L.fb, QUnit)
      low    == CoreStep(L.lowA, L.alpha2, driveLow, L.lowS1, L.lowS2)
      centre == CoreStep(L.centreA, L.alpha2, driveCentre, L.centreS1, L.lowS2)
      high   == CoreStep(L.highA, L.alpha2, driveHigh, L.highS1, L.highS2)
  IN  [L |-> [L EXCEPT !.lowS1 = low.bp, !.lowS2 = low.lp,
                       !.centreS1 = centre.bp, !.centreS2 = centre.lp,
                       !.highS1 = high.bp, !.highS2 = high.lp],
       y |-> RDiv(low.bp + centre.bp + high.bp, 3)]

\* one iteration of the sample loop: the new locals and the output sample
SampleStep(L, x) ==
  LET sumBP       == L.lowS1 + L.centreS1 + L.highS1
      sharedDrive == x + RDiv(sumBP * L.fb, QUnit)
      driveLow    == sharedDrive + RDiv(L.highS1 * L.fb, QUnit)
      driveCentre == sharedDrive + RDiv(L.lowS1 * L.fb, QUnit)
      driveHigh   == sharedDrive + RDiv(L.centreS1 * L.fb, QUnit)
      low    == CoreStep(L.lowA, L.alpha2, driveLow, L.lowS1, L.lowS2)
      centre == CoreStep(L.centreA, L.alpha2, driveCentre, L.centreS1, L.centreS2)
      high   == CoreStep(L.highA, L.alpha2, driveHigh, L.highS1, L.highS2)
  IN  [L |-> [L EXCEPT !.lowS1 = low.bp, !.lowS2 = low.lp,
                       !.centreS1 = centre.bp, !.centreS2 = centre.lp,
                       !.highS1 = high.bp, !.highS2 = high.lp],
       y |-> RDiv(low.bp + centre.bp + high.bp, 3)]

\* the sample loop from index k on: the final locals and the output written
RECURSIVE RunSamples(_, _, _, _)
RunSamples(L, inCh, k, outCh) ==
  IF k >= Len(inCh) THEN [L |-> L, outCh |-> outCh]
  ELSE LET r == SampleStep(L, inCh[k + 1])
       IN  RunSamples(r.L, inCh, k + 1, Append(outCh, r.y))

\* the six integrator states stored back on the processor
StoreStates(p, L) ==
  [p EXCEPT !.lowS1 = L.lowS1, !.lowS2 = L.lowS2,
            !.centreS1 = L.centreS1, !.centreS2 = L.centreS2,
            !.highS1 = L.highS1, !.highS2 = L.highS2]

\* the state of a call that has returned true after writing outCh
Returned(outCh) ==
  [IdleRun EXCEPT !.outCh = outCh, !.ret = "true", !.last = "processed"]

\* the state of a call that has returned true at the empty-input guard,
\* its output buffer left as the host handed it over
Skipped == [IdleRun EXCEPT !.ret = "true", !.last = "skipped"]

\* the block an input with no signal delivers
SilentBlock == <<0, 0>>

\* process with the empty-input guard missing
ProcessUnguarded(i, hasInput) ==
  /\ pc[i] = "ready"
  /\ run[i].at = "idle"
  /\ hasInput => connIn[i]
  /\ LET p == EnterBlock(proc[i], sampleRate)
         r == RunSamples(LocalsOf(p, sampleRate), SilentBlock, 0, << >>)
     IN  /\ proc' = [proc EXCEPT ![i] = StoreStates(p, r.L)]
         /\ blk' = [blk EXCEPT ![i] = BlockOf(p)]
         /\ run' = [run EXCEPT ![i] = Returned(r.outCh)]
  /\ UNCHANGED <<sampleRate, workletLoaded, addModuleCalls, ctx, pc, options,
                 workletNode, params, connIn, connOut, disposed, port, nSet,
                 setSince, early, calls, blocks, streak, dlog, simple, app>>

\* process, one render quantum; hasInput is input && input.length > 0
Process(i, hasInput) ==
  /\ pc[i] = "ready"
  /\ run[i].at = "idle"
  /\ hasInput => connIn[i]
  /\ IF hasInput
     THEN LET p == EnterBlock(proc[i], sampleRate)
              r == RunSamples(LocalsOf(p, sampleRate), SilentBlock, 0, << >>)
          IN  /\ proc' = [proc EXCEPT ![i] = StoreStates(p, r.L)]
              /\ blk' = [blk EXCEPT ![i] = BlockOf(p)]
              /\ run' = [run EXCEPT ![i] = Returned(r.outCh)]
     ELSE /\ run' = [run EXCEPT ![i] = Skipped]
          /\ UNCHANGED <<proc, blk>>
  /\ UNCHANGED <<sampleRate, workletLoaded, addModuleCalls, ctx, pc, options,
                 workletNode, params, connIn, connOut, disposed, port, nSet,
                 setSince, early, calls, blocks, streak, dlog, simple, app>>

Abs(x) == IF x >= 0 THEN x ELSE -x

\* the six integrator states are within the amplitudes the model follows
InRange(p) ==
  \A x \in {p.lowS1, p.lowS2, p.centreS1, p.centreS2, p.highS1, p.highS2} :
    Abs(x) <= MaxAmp

\* process entered on a non-empty input: the recalculation if the flag is set,
\* then the local copies; the loop has not run yet
BeginBlock(i, inCh) ==
  /\ pc[i] = "ready"
  /\ run[i].at = "idle"
  /\ connIn[i]
  /\ blocks < MaxBlocks
  /\ InRange(proc[i])
  /\ blocks' = blocks + 1
  /\ LET p == EnterBlock(proc[i], sampleRate)
     IN  /\ proc' = [proc EXCEPT ![i] = p]
         /\ blk' = [blk EXCEPT ![i] = BlockOf(p)]
         /\ run' = [run EXCEPT ![i] =
                      [IdleRun EXCEPT !.at = "loop", !.inCh = inCh,
                                      !.recalcs = IF proc[i].recalc THEN 1 ELSE 0,
                                      !.L = LocalsOf(p, sampleRate)]]
         /\ streak' = [streak EXCEPT ![i] =
                         IF streak[i].ins = << >>
                         THEN [L0 |-> LocalsOf(p, sampleRate), ins |-> inCh,
                               outs |-> << >>]
                         ELSE [L0 |-> streak[i].L0,
                               ins |-> streak[i].ins \o inCh,
                               outs |-> streak[i].outs]]
  /\ UNCHANGED <<sampleRate, workletLoaded, addModuleCalls, ctx, pc, options,
                 workletNode, params, connIn, connOut, disposed, port, nSet,
                 setSince, early, calls, dlog, simple, app>>

\* one iteration of for (let i = 0; i < inCh.length; i++)
SampleIter(i) ==
  /\ run[i].at = "loop"
  /\ run[i].k < Len(run[i].inCh)
  /\ LET r == SampleStep(run[i].L, run[i].inCh[run[i].k + 1])
     IN  run' = [run EXCEPT ![i].L = r.L, ![i].k = @ + 1,
                            ![i].outCh = Append(@, r.y)]
  /\ UNCHANGED <<sampleRate, workletLoaded, addModuleCalls, ctx, pc, options,
                 workletNode, params, connIn, connOut, disposed, port, proc,
                 blk, nSet, setSince, early, calls, blocks, streak, dlog, simple, app>>

\* the loop is over: the integrator states are stored and process returns true
EndBlock(i) ==
  /\ run[i].at = "loop"
  /\ run[i].k >= Len(run[i].inCh)
  /\ proc' = [proc EXCEPT ![i] = StoreStates(@, run[i].L)]
  /\ run' = [run EXCEPT ![i] = Returned(run[i].outCh)]
  /\ streak' = [streak EXCEPT ![i].outs = @ \o run[i].outCh]
  /\ UNCHANGED <<sampleRate, workletLoaded, addModuleCalls, ctx, pc, options,
                 workletNode, params, connIn, connOut, disposed, port, blk,
                 nSet, setSince, early, calls, blocks, dlog, simple, app>>

\* this._workletNode.port.postMessage(data) by control-side code, at any time
Post(i, data) ==
  /\ workletNode[i]
  /\ calls < MaxCalls
  /\ calls' = calls + 1
  /\ port' = [port EXCEPT ![i] = Append(@, data)]
  /\ UNCHANGED <<sampleRate, workletLoaded, addModuleCalls, ctx, pc, options,
                 workletNode, params, connIn, connOut, disposed, proc, blk,
                 nSet, setSince, early, run, blocks, streak, dlog, simple, app>>

\* ---------------------------------------------------------------- facade

\* the tail of _initWorklet without the worklet -> output connect
CreateNodeHalfWired(i, o) ==
  /\ workletNode' = [workletNode EXCEPT ![i] = TRUE]
  /\ params' = [params EXCEPT ![i] = o]
  /\ proc' = [proc EXCEPT ![i] = NewProcessor]
  /\ connIn' = [connIn EXCEPT ![i] = TRUE]
  /\ connOut' = [connOut EXCEPT ![i] = FALSE]

\* the tail of _initWorklet: new AudioWorkletNode(...) and the two connects
CreateNode(i, o) ==
  /\ workletNode' = [workletNode EXCEPT ![i] = TRUE]
  /\ params' = [params EXCEPT ![i] = o]
  /\ proc' = [proc EXCEPT ![i] = NewProcessor]
  /\ connIn' = [connIn EXCEPT ![i] = TRUE]
  /\ connOut' = [connOut EXCEPT ![i] = TRUE]

\* constructor, with _initWorklet run up to its first await, or to its end
\* when the flag is already set: new AudioWorkletNode(context, name) throws on
\* a context that has no processor registered under the name
ConstructOp(i, o) ==
  /\ pc[i] = "unborn"
  /\ options' = [options EXCEPT ![i] = MergeOptions(o)]
  /\ IF ~workletLoaded
     THEN /\ addModuleCalls' = addModuleCalls + 1
          /\ pc' = [pc EXCEPT ![i] = "loading"]
          /\ ctx' = [ctx EXCEPT !.of[i] = ctx.tone]
          /\ UNCHANGED <<workletNode, params, proc, connIn, connOut>>
     ELSE /\ ctx' = [ctx EXCEPT !.of[i] = ctx.tone, !.tried[i] = TRUE]
          /\ UNCHANGED addModuleCalls
          /\ IF ctx.tone \in ctx.registered
             THEN /\ CreateNode(i, MergeOptions(o))
                  /\ pc' = [pc EXCEPT ![i] = "ready"]
             ELSE /\ pc' = [pc EXCEPT ![i] = "failed"]
                  /\ UNCHANGED <<workletNode, params, proc, connIn, connOut>>
  /\ UNCHANGED <<sampleRate, workletLoaded, disposed, port, blk, nSet,
                 setSince, early, calls, run, blocks, streak, dlog>>

Construct(i, o) == ConstructOp(i, o) /\ UNCHANGED <<simple, app>>

\* constructor where _initWorklet finds no context or no context.audioWorklet:
\* it throws before anything is loaded, so ready() rejects
ConstructUnsupportedOp(i, o) ==
  /\ pc[i] = "unborn"
  /\ options' = [options EXCEPT ![i] = MergeOptions(o)]
  /\ pc' = [pc EXCEPT ![i] = "failed"]
  /\ UNCHANGED <<sampleRate, workletLoaded, addModuleCalls, ctx, workletNode,
                 params, connIn, connOut, disposed, port, proc, blk, nSet,
                 setSince, early, calls, run, blocks, streak, dlog>>

ConstructUnsupported(i, o) ==
  ConstructUnsupportedOp(i, o) /\ UNCHANGED <<simple, app>>

\* _initWorklet resumed after await addModule(url) fulfilled
AddModuleResolve(i) ==
  /\ pc[i] = "loading"
  /\ workletLoaded' = TRUE
  /\ ctx' = [ctx EXCEPT !.registered = @ \cup {ctx.of[i]}, !.tried[i] = TRUE]
  /\ CreateNode(i, options[i])
  /\ pc' = [pc EXCEPT ![i] = "ready"]
  /\ UNCHANGED <<sampleRate, addModuleCalls, options, disposed, port, blk,
                 nSet, setSince, early, calls, run, blocks, streak, dlog, simple, app>>

\* _initWorklet resumed after the await, new AudioWorkletNode(...) throws:
\* the flag is already set, nothing is connected, ready() rejects
NodeCreationFails(i) ==
  /\ pc[i] = "loading"
  /\ workletLoaded' = TRUE
  /\ ctx' = [ctx EXCEPT !.registered = @ \cup {ctx.of[i]}, !.tried[i] = TRUE]
  /\ pc' = [pc EXCEPT ![i] = "failed"]
  /\ UNCHANGED <<sampleRate, addModuleCalls, options, workletNode, params,
                 connIn, connOut, disposed, port, proc, blk, nSet, setSince, early,
                 calls, run, blocks, streak, dlog, simple, app>>

\* await addModule(url) rejected: _initWorklet throws, ready() rejects
AddModuleReject(i) ==
  /\ pc[i] = "loading"
  /\ pc' = [pc EXCEPT ![i] = "failed"]
  /\ UNCHANGED <<sampleRate, workletLoaded, addModuleCalls, ctx, options,
                 workletNode, params, connIn, connOut, disposed, port, proc,
                 blk, nSet, setSince, early, calls, run, blocks, streak, dlog, simple, app>>

\* Tone.setContext(c) by client code: Tone.getContext() returns c from now on
SetContext(c) ==
  /\ c # ctx.tone
  /\ ctx' = [ctx EXCEPT !.tone = c]
  /\ UNCHANGED <<sampleRate, workletLoaded, addModuleCalls, pc, options,
                 workletNode, params, connIn, connOut, disposed, port, proc,
                 blk, nSet, setSince, early, calls, run, blocks, streak, dlog,
                 simple, app>>

getCenter(i) == options[i].center
getSpan(i) == options[i].span
getQ(i) == options[i].q
getFeedback(i) == options[i].feedback

\* the body shared by the four setters, for the fields of m in order
SetFields(i, fs, m) ==
  /\ options' = [options EXCEPT ![i] =
                   [f \in Fields |-> IF f \in DOMAIN m THEN m[f] ELSE @[f]]]
  /\ IF workletNode[i]
     THEN /\ params' = [params EXCEPT ![i] =
                          [f \in Fields |-> IF f \in DOMAIN m THEN m[f] ELSE @[f]]]
          /\ port' = [port EXCEPT ![i] =
                        @ \o [k \in 1..Len(fs) |->
                                (fs[k] :> m[fs[k]]) @@ [type |-> "update"]]]
          /\ setSince' = [setSince EXCEPT ![i] = @ \cup DOMAIN m]
          /\ UNCHANGED early
     ELSE /\ early' = [early EXCEPT ![i] = @ \cup DOMAIN m]
          /\ UNCHANGED <<params, port, setSince>>

SetterFrame(i) ==
  /\ pc[i] # "unborn"
  /\ calls < MaxCalls
  /\ calls' = calls + 1
  /\ nSet' = [nSet EXCEPT ![i] = @ + 1]
  /\ UNCHANGED <<sampleRate, workletLoaded, addModuleCalls, ctx, pc, workletNode,
                 connIn, connOut, disposed, proc, blk, run, blocks, streak, dlog, simple,
                 app>>

\* set center (value)
SetCenter(i, v) == SetterFrame(i) /\ SetFields(i, <<"center">>, [center |-> v])

\* set span (value)
SetSpan(i, v) == SetterFrame(i) /\ SetFields(i, <<"span">>, [span |-> v])

\* set q (value)
SetQ(i, v) == SetterFrame(i) /\ SetFields(i, <<"q">>, [q |-> v])

\* set feedback (value)
SetFeedback(i, v) ==
  SetterFrame(i) /\ SetFields(i, <<"feedback">>, [feedback |-> v])

\* update (center, span)
Update(i, c, s) ==
  SetterFrame(i) /\ SetFields(i, <<"center", "span">>, [center |-> c, span |-> s])

\* the statements of dispose() in source order; super.dispose() is the
\* base class releasing the input and output nodes
DisposeSteps(hasNode) ==
  <<"super.dispose">> \o
  (IF hasNode
   THEN <<"post feedback 0", "input.disconnect", "worklet.disconnect",
          "workletNode = null">>
   ELSE << >>)

\* dispose
DisposeOp(i) ==
  /\ pc[i] # "unborn"
  /\ disposed' = [disposed EXCEPT ![i] = TRUE]
  /\ dlog' = [dlog EXCEPT ![i] = DisposeSteps(workletNode[i])]
  /\ IF workletNode[i]
     THEN /\ port' = [port EXCEPT ![i] =
                        Append(@, [type |-> "update", feedback |-> 0])]
          /\ connIn' = [connIn EXCEPT ![i] = FALSE]
          /\ connOut' = [connOut EXCEPT ![i] = FALSE]
          /\ workletNode' = [workletNode EXCEPT ![i] = FALSE]
     ELSE UNCHANGED <<port, connIn, connOut, workletNode>>
  /\ UNCHANGED <<sampleRate, workletLoaded, addModuleCalls, ctx, pc, options,
                 params, proc, blk, nSet, setSince, early, calls, run, blocks, streak>>

Dispose(i) == DisposeOp(i) /\ UNCHANGED <<simple, app>>

\* ------------------------------------------------- SimpleThreeBandFilter

\* raw && raw.sampleRate ? raw.sampleRate / 2 : 20000
SimpleNyquist == IF app.raw THEN sampleRate \div 2 ELSE NoContextNyquist

\* { ...defaults, ...options }
SimpleMerge(o) ==
  [f \in SimpleFields |-> IF f \in DOMAIN o THEN o[f] ELSE simpleDefaults[f]]

\* _updateFrequencies without Math.max(0, span)
SimpleUpdateFrequenciesRawSpan(s, nyquist) ==
  LET centre == Min(nyquist, Max(SimpleFreqFloor, s.options.center))
      span   == s.options.span
      low    == Max(SimpleFreqFloor, centre - span)
      high   == Min(nyquist, centre + span)
  IN  [s EXCEPT !.low = low, !.centre = centre, !.high = high]

\* _updateFrequencies
SimpleUpdateFrequencies(s, nyquist) ==
  LET centre == Min(nyquist, Max(SimpleFreqFloor, s.options.center))
      span   == Max(0, s.options.span)
      low    == Max(SimpleFreqFloor, centre - span)
      high   == Min(nyquist, centre + span)
  IN  [s EXCEPT !.low = low, !.centre = centre, !.high = high]

\* _updateQ
SimpleUpdateQ(s) ==
  LET q == Max(SimpleQFloor, s.options.q)
  IN  [s EXCEPT !.lowQ = q, !.centreQ = q, !.highQ = q]

\* the constructor: the three filters start on options.center, then
\* _updateFrequencies and _updateQ; ready() is an async function that returns
\* at once
SimpleNew(o, nyquist) ==
  LET m == SimpleMerge(o)
  IN  SimpleUpdateQ(SimpleUpdateFrequencies(
        [NoSimple EXCEPT !.made = 1, !.ready = "resolved", !.options = m,
                         !.low = m.center, !.centre = m.center,
                         !.high = m.center], nyquist))

\* set center (value)
SimpleWithCenter(s, v, nyquist) ==
  SimpleUpdateFrequencies([s EXCEPT !.options.center = v], nyquist)

\* set span (value)
SimpleWithSpan(s, v, nyquist) ==
  SimpleUpdateFrequencies([s EXCEPT !.options.span = v], nyquist)

\* set q (value)
SimpleWithQ(s, v) == SimpleUpdateQ([s EXCEPT !.options.q = v])

\* update (center, span): a names the arguments that are not undefined
SimpleWithUpdate(s, a, nyquist) ==
  LET s1 == IF "center" \in DOMAIN a
            THEN SimpleWithCenter(s, a.center, nyquist) ELSE s
  IN  IF "span" \in DOMAIN a THEN SimpleWithSpan(s1, a.span, nyquist) ELSE s1

\* what every operation of the simple filter leaves alone
SimpleFrame ==
  UNCHANGED <<sampleRate, workletLoaded, addModuleCalls, ctx, pc, options,
              workletNode, params, connIn, connOut, disposed, port, proc, blk,
              nSet, setSince, early, run, blocks, streak, dlog, app>>

\* new SimpleThreeBandFilter(options)
SimpleConstruct(k, o) ==
  /\ simple[k].made = 0
  /\ simple' = [simple EXCEPT ![k] = SimpleNew(o, SimpleNyquist)]
  /\ UNCHANGED calls
  /\ SimpleFrame

\* a setter or update call on the live filter
SimpleCall(k, s) ==
  /\ simple[k].made > 0
  /\ ~simple[k].disposed
  /\ calls < MaxCalls
  /\ calls' = calls + 1
  /\ simple' = [simple EXCEPT ![k] = s]
  /\ SimpleFrame

SimpleSetCenter(k, v) ==
  SimpleCall(k, SimpleWithCenter(simple[k], v, SimpleNyquist))
SimpleSetSpan(k, v) ==
  SimpleCall(k, SimpleWithSpan(simple[k], v, SimpleNyquist))
SimpleSetQ(k, v) == SimpleCall(k, SimpleWithQ(simple[k], v))
SimpleUpdate(k, a) ==
  SimpleCall(k, SimpleWithUpdate(simple[k], a, SimpleNyquist))

\* dispose
SimpleDispose(k) ==
  /\ simple[k].made > 0
  /\ simple' = [simple EXCEPT ![k].disposed = TRUE]
  /\ UNCHANGED calls
  /\ SimpleFrame

\* ------------------------------------ generateSoundscape, filter selection

\* the generateSoundscape call followed alone, and the filters it constructs
AppInst == 1

\* params.synthFilterFrequency / Span / Q clamped into the slider ranges
ClampSettings(p) ==
  [center |-> Min(Max(p.frequency, SynthFilterFrequencyMin),
                  SynthFilterFrequencyMax),
   span   |-> Min(Max(p.span, SynthFilterSpanMin), SynthFilterSpanMax),
   q      |-> Min(Max(p.q, SynthFilterQMin), SynthFilterQMax)]

\* the options object of new ThreeSistersSVF({...})
SvfOptions(c) ==
  [center |-> c.center, span |-> c.span, q |-> c.q,
   feedback |-> SynthFilterDefaultFeedback]

\* canUseThreeSistersSVF()
canUseThreeSistersSVF == app.raw /\ app.worklet

\* if (supportsSVF), taken whatever the probe said
TriesSVFAlways(supportsSVF) == TRUE

\* if (supportsSVF)
TriesSVF(supportsSVF) == supportsSVF

\* applySynthFilterSettings on a SimpleThreeBandFilter: update(frequency,
\* span), then q
SimpleApplySettings(s, c, nyquist) ==
  SimpleWithQ(SimpleWithUpdate(s, [center |-> c.center, span |-> c.span],
                               nyquist), c.q)

\* the filters call c constructs carry the call's number
SvfOf(c) == [kind |-> "svf", of |-> c]
SimpleOf(c) == [kind |-> "simple", of |-> c]

\* every variable of the ThreeSistersSVF instances and their processors
FacadeVars ==
  <<sampleRate, workletLoaded, addModuleCalls, ctx, pc, options, workletNode,
    params, connIn, connOut, disposed, port, proc, blk, nSet, setSince, early,
    calls, run, blocks, streak, dlog>>

\* the main thread is inside a call's synchronous segment, or a settled
\* ready() has the call's continuation waiting in the microtask queue: no
\* other task of the page runs before the call has moved on
MidSegment ==
  \E c \in Inst :
    \/ app.call[c].gpc = "cleaned"
    \/ app.call[c].gpc = "awaiting" /\ pc[c] \in {"ready", "failed"}

\* generateSoundscape returned to setupAndPlay, which sets isSetup = true
Finished(a, c) ==
  IF a.call[c].fromSetup THEN [a EXCEPT !.isSetup = TRUE] ELSE a

\* if (!filterNode) { new SimpleThreeBandFilter(...) }, synthFilter =
\* filterNode and applySynthFilterSettings, from the page state a; a
\* throwing constructor lets the error leave generateSoundscape
Fallback(c, a, s) ==
  IF a.simpleThrows
  THEN /\ app' = [a EXCEPT !.call[c].gpc = "threw",
                           !.call[c].simpleTried = @ + 1]
       /\ UNCHANGED simple
  ELSE /\ app' = Finished([a EXCEPT !.call[c].gpc = "done",
                                    !.call[c].simpleTried = @ + 1,
                                    !.call[c].filterNode = "simple",
                                    !.synthFilter = SimpleOf(c),
                                    !.synthFilterIsSVF = FALSE], c)
       /\ simple' = [simple EXCEPT ![c] =
                       SimpleApplySettings(SimpleNew(s, SimpleNyquist), s,
                                           SimpleNyquist)]

\* the catch block with filterNode.dispose() left out
CatchFailureNoDispose(i) == UNCHANGED FacadeVars

\* the catch block: if (filterNode) { filterNode.dispose(); filterNode = null }
CatchFailure(i) == DisposeOp(i)

\* cleanupAudio with synthFilterIsSVF left as it was
CleanupAudioKeepsFlag(a) ==
  LET f == app.synthFilter
  IN  /\ app' = [a EXCEPT !.synthFilter = NoFilter]
      /\ IF f.kind = "svf" /\ ~disposed[f.of]
         THEN DisposeOp(f.of) /\ UNCHANGED simple
         ELSE IF f.kind = "simple" /\ ~simple[f.of].disposed
              THEN /\ simple' = [simple EXCEPT ![f.of].disposed = TRUE]
                   /\ UNCHANGED FacadeVars
              ELSE UNCHANGED <<simple, FacadeVars>>

\* the synthFilter part of cleanupAudio, from the page state a: the filter is
\* disconnected from the page's graph and disposed unless it is disposed
\* already, then synthFilter = null and synthFilterIsSVF = false
CleanupAudio(a) ==
  LET f == app.synthFilter
  IN  /\ app' = [a EXCEPT !.synthFilter = NoFilter, !.synthFilterIsSVF = FALSE]
      /\ IF f.kind = "svf" /\ ~disposed[f.of]
         THEN DisposeOp(f.of) /\ UNCHANGED simple
         ELSE IF f.kind = "simple" /\ ~simple[f.of].disposed
              THEN /\ simple' = [simple EXCEPT ![f.of].disposed = TRUE]
                   /\ UNCHANGED FacadeVars
              ELSE UNCHANGED <<simple, FacadeVars>>

\* generateSoundscape past its fade: if (isSetup) { cleanupAudio(false) }
GenCleanup(c) ==
  /\ app.call[c].gpc = "idle"
  /\ app.isSetup
  /\ ~MidSegment
  /\ CleanupAudio([app EXCEPT !.call[c].gpc = "cleaned"])

\* the stop button: cleanupAudio(true), isSetup = false
Stop ==
  /\ app.isSetup
  /\ ~MidSegment
  /\ CleanupAudio([app EXCEPT !.isSetup = FALSE])

\* filter selection up to await filterNode.ready(), or to its end when the
\* ThreeSistersSVF is not tried; it follows the cleanup in the same task, or
\* starts the call where isSetup is false (a call setupAndPlay awaits)
SelectStart(c, p) ==
  /\ \/ app.call[c].gpc = "cleaned"
     \/ app.call[c].gpc = "idle" /\ ~app.isSetup /\ ~MidSegment
  /\ LET s == ClampSettings(p)
         supportsSVF == canUseThreeSistersSVF
         a == [app EXCEPT !.call[c].supportsSVF = supportsSVF,
                          !.call[c].fromSetup = ~app.isSetup,
                          !.call[c].settings = s,
                          !.call[c].filterNode = "none",
                          !.synthFilterIsSVF = FALSE]
     IN  IF TriesSVF(supportsSVF)
         THEN /\ IF app.toneWorklet
                 THEN ConstructOp(c, SvfOptions(s))
                 ELSE ConstructUnsupportedOp(c, SvfOptions(s))
              /\ app' = [a EXCEPT !.call[c].gpc = "awaiting",
                                  !.call[c].filterNode = "svf",
                                  !.call[c].svfMade = @ + 1]
              /\ UNCHANGED simple
         ELSE /\ Fallback(c, a, s)
              /\ UNCHANGED FacadeVars

\* filter selection resumed after await filterNode.ready() has settled
SelectResume(c) ==
  /\ app.call[c].gpc = "awaiting"
  /\ pc[c] \in {"ready", "failed"}
  /\ IF pc[c] = "ready"
     THEN /\ app' = Finished([app EXCEPT !.call[c].gpc = "done",
                                         !.synthFilterIsSVF = TRUE,
                                         !.synthFilter = SvfOf(c)], c)
          /\ SetFields(c, <<"center", "span", "q">>, app.call[c].settings)
          /\ UNCHANGED <<sampleRate, workletLoaded, addModuleCalls, ctx, pc,
                         workletNode, connIn, connOut, disposed, proc, blk,
                         nSet, calls, run, blocks, streak, dlog, simple>>
     ELSE /\ CatchFailure(c)
          /\ Fallback(c, [app EXCEPT !.call[c].caught = @ + 1,
                                     !.call[c].filterNode = "none",
                                     !.synthFilterIsSVF = FALSE],
                      app.call[c].settings)

\* applySynthFilterSettings without its clamps
ClampPartialRaw(settings) ==
  (IF "frequency" \in DOMAIN settings
   THEN [center |-> settings.frequency] ELSE << >>) @@
  (IF "span" \in DOMAIN settings THEN [span |-> settings.span] ELSE << >>) @@
  (IF "q" \in DOMAIN settings THEN [q |-> settings.q] ELSE << >>)

\* clampedFrequency, clampedSpan and clampedQ of applySynthFilterSettings:
\* a field that is undefined in the settings stays undefined
ClampPartial(settings) ==
  (IF "frequency" \in DOMAIN settings
   THEN [center |-> Min(Max(settings.frequency, SynthFilterFrequencyMin),
                        SynthFilterFrequencyMax)]
   ELSE << >>) @@
  (IF "span" \in DOMAIN settings
   THEN [span |-> Min(Max(settings.span, SynthFilterSpanMin),
                      SynthFilterSpanMax)]
   ELSE << >>) @@
  (IF "q" \in DOMAIN settings
   THEN [q |-> Min(Max(settings.q, SynthFilterQMin), SynthFilterQMax)]
   ELSE << >>)

\* the fields of m in the order applySynthFilterSettings writes them
FieldOrder(m) ==
  (IF "center" \in DOMAIN m THEN <<"center">> ELSE << >>) \o
  (IF "span" \in DOMAIN m THEN <<"span">> ELSE << >>) \o
  (IF "q" \in DOMAIN m THEN <<"q">> ELSE << >>)

\* applySynthFilterSettings(settings) called by a control of the page; the
\* call is followed where synthFilterIsSVF tells the kind of synthFilter
ApplySettings(settings) ==
  /\ ~MidSegment
  /\ app.synthFilter.kind = "svf" <=> app.synthFilterIsSVF
  /\ calls < MaxCalls
  /\ calls' = calls + 1
  /\ LET f == app.synthFilter
         m == ClampPartial(settings)
     IN  IF f.kind = "none"
         THEN UNCHANGED <<options, params, port, setSince, early, simple>>
         ELSE IF app.synthFilterIsSVF
              THEN /\ SetFields(f.of, FieldOrder(m), m)
                   /\ UNCHANGED simple
              ELSE /\ simple' = [simple EXCEPT ![f.of] =
                        LET u == SimpleWithUpdate(@, m, SimpleNyquist)
                        IN  IF "q" \in DOMAIN m THEN SimpleWithQ(u, m.q) ELSE u]
                   /\ UNCHANGED <<options, params, port, setSince, early>>
  /\ UNCHANGED <<sampleRate, workletLoaded, addModuleCalls, ctx, pc,
                 workletNode, connIn, connOut, disposed, proc, blk, nSet, run,
                 blocks, streak, dlog, app>>

\* ---------------------------------------------------------- specification

Init ==
  /\ sampleRate \in SampleRates
  /\ workletLoaded = FALSE
  /\ addModuleCalls = 0
  /\ ctx = NoContexts
  /\ pc = [i \in Inst |-> "unborn"]
  /\ options = [i \in Inst |-> NoOptions]
  /\ workletNode = [i \in Inst |-> FALSE]
  /\ params = [i \in Inst |-> NoOptions]
  /\ connIn = [i \in Inst |-> FALSE]
  /\ connOut = [i \in Inst |-> FALSE]
  /\ disposed = [i \in Inst |-> FALSE]
  /\ port = [i \in Inst |-> << >>]
  /\ proc = [i \in Inst |-> NewProcessor]
  /\ blk = [i \in Inst |-> NoBlock]
  /\ nSet = [i \in Inst |-> 0]
  /\ setSince = [i \in Inst |-> {}]
  /\ early = [i \in Inst |-> {}]
  /\ calls = 0
  /\ run = [i \in Inst |-> IdleRun]
  /\ blocks = 0
  /\ streak = [i \in Inst |-> NoStreak]
  /\ dlog = [i \in Inst |-> << >>]
  /\ simple = [k \in Inst |-> NoSimple]
  /\ app = NoApp

\* One instance under every operation; the static flag starts in either state,
\* as an instance constructed earlier on the context may have set it.
InitSolo ==
  /\ sampleRate \in SampleRates
  /\ workletLoaded \in BOOLEAN
  /\ addModuleCalls = 0
  /\ ctx = IF workletLoaded THEN [NoContexts EXCEPT !.registered = {1}]
                            ELSE NoContexts
  /\ pc = [i \in Inst |-> "unborn"]
  /\ options = [i \in Inst |-> NoOptions]
  /\ workletNode = [i \in Inst |-> FALSE]
  /\ params = [i \in Inst |-> NoOptions]
  /\ connIn = [i \in Inst |-> FALSE]
  /\ connOut = [i \in Inst |-> FALSE]
  /\ disposed = [i \in Inst |-> FALSE]
  /\ port = [i \in Inst |-> << >>]
  /\ proc = [i \in Inst |-> NewProcessor]
  /\ blk = [i \in Inst |-> NoBlock]
  /\ nSet = [i \in Inst |-> 0]
  /\ setSince = [i \in Inst |-> {}]
  /\ early = [i \in Inst |-> {}]
  /\ calls = 0
  /\ run = [i \in Inst |-> IdleRun]
  /\ blocks = 0
  /\ streak = [i \in Inst |-> NoStreak]
  /\ dlog = [i \in Inst |-> << >>]
  /\ simple = [k \in Inst |-> NoSimple]
  /\ app = NoApp

Next ==
  \/ \E i \in Solo, o \in OptionSets : Construct(i, o)
  \/ \E i \in Solo : AddModuleResolve(i)
  \/ \E i \in Solo, o \in OptionSets : ConstructUnsupported(i, o)
  \/ \E i \in Solo : AddModuleReject(i)
  \/ \E i \in Solo : NodeCreationFails(i)
  \/ \E i \in Solo, v \in CenterVals : SetCenter(i, v)
  \/ \E i \in Solo, v \in SpanVals : SetSpan(i, v)
  \/ \E i \in Solo, v \in QVals : SetQ(i, v)
  \/ \E i \in Solo, v \in FeedbackVals : SetFeedback(i, v)
  \/ \E i \in Solo, a \in UpdateArgs : Update(i, a[1], a[2])
  \/ \E i \in Solo : Dispose(i)
  \/ \E i \in Solo : Deliver(i)
  \/ \E i \in Solo : Process(i, TRUE)

\* one instance, every operation of the facade and the processor
Spec == InitSolo /\ [][Next]_vars

NextShared ==
  \/ \E i \in Inst, o \in OptionSets : Construct(i, o)
  \/ \E i \in Inst : AddModuleResolve(i)
  \/ \E i \in Inst, o \in OptionSets : ConstructUnsupported(i, o)
  \/ \E i \in Inst : AddModuleReject(i)
  \/ \E i \in Inst : NodeCreationFails(i)
  \/ \E i \in Inst : Dispose(i)
  \/ \E i \in Inst : Deliver(i)
  \/ \E i \in Inst : Process(i, TRUE)

\* several instances on one context, their lifecycles interleaved
SpecShared == Init /\ [][NextShared]_vars

NextContexts ==
  \/ \E i \in Inst, o \in OptionSets : Construct(i, o)
  \/ \E i \in Inst : AddModuleResolve(i)
  \/ \E i \in Inst : AddModuleReject(i)
  \/ \E i \in Inst : NodeCreationFails(i)
  \/ \E i \in Inst : Dispose(i)
  \/ \E c \in Contexts : SetContext(c)

\* instances constructed while client code switches Tone's context
SpecContexts == Init /\ [][NextContexts]_vars

\* messages a port can carry: partial updates, an update with no field, the
\* feedback-zero update dispose posts, and a message of another type
Messages ==
  { [type |-> "update", center |-> 30000],
    [type |-> "update", span |-> 0, q |-> 20000, feedback |-> 0],
    [type |-> "update"],
    [type |-> "update", feedback |-> 0],
    [type |-> "reset", center |-> 100, feedback |-> 9000] }

\* one channel of a render quantum, shortened to two samples
InputBlocks == { <<0, 0>>, <<1000, -500>> }

\* configurations earlier messages have left on a processor
DspConfigs ==
  { [centreFreq |-> 600, span |-> 300, alpha2 |-> [num |-> 1, den |-> 8],
     feedback |-> 0],
    [centreFreq |-> 30000, span |-> 300, alpha2 |-> [num |-> 1, den |-> 8],
     feedback |-> 0],
    [centreFreq |-> 8000, span |-> 0, alpha2 |-> Alpha2Of(5000),
     feedback |-> 500] }

\* integrator states earlier blocks have left on a processor
BandStates ==
  { [lowS1 |-> 0, lowS2 |-> 0, centreS1 |-> 0, centreS2 |-> 0,
     highS1 |-> 0, highS2 |-> 0],
    [lowS1 |-> 1000, lowS2 |-> 0, centreS1 |-> 1000, centreS2 |-> 0,
     highS1 |-> 1000, highS2 |-> 0],
    [lowS1 |-> 0, lowS2 |-> 1000, centreS1 |-> -500, centreS2 |-> 200,
     highS1 |-> 0, highS2 |-> -1000] }

\* a processor between two blocks: fresh from its constructor, or with a
\* configuration c whose coefficients the last block computed and states s
Rendered(c, s, sr) ==
  StoreStates(UpdateCoefficients([NewProcessor EXCEPT
                                    !.centreFreq = c.centreFreq,
                                    !.span = c.span,
                                    !.alpha2 = c.alpha2,
                                    !.feedback = c.feedback], sr), s)

\* instance 1 ready and wired, its processor between two blocks
InitDsp ==
  /\ sampleRate \in SampleRates
  /\ workletLoaded = TRUE
  /\ addModuleCalls = 1
  /\ ctx = [NoContexts EXCEPT !.of[1] = 1, !.registered = {1},
                               !.tried[1] = TRUE]
  /\ pc = [i \in Inst |-> IF i \in Solo THEN "ready" ELSE "unborn"]
  /\ options = [i \in Inst |-> IF i \in Solo THEN defaults ELSE NoOptions]
  /\ workletNode = [i \in Inst |-> i \in Solo]
  /\ params = [i \in Inst |-> IF i \in Solo THEN defaults ELSE NoOptions]
  /\ connIn = [i \in Inst |-> i \in Solo]
  /\ connOut = [i \in Inst |-> i \in Solo]
  /\ disposed = [i \in Inst |-> FALSE]
  /\ port = [i \in Inst |-> << >>]
  /\ \E p \in {NewProcessor} \cup
              {Rendered(c, s, sampleRate) : c \in DspConfigs, s \in BandStates} :
       proc = [i \in Inst |-> IF i \in Solo THEN p ELSE NewProcessor]
  /\ blk = [i \in Inst |-> NoBlock]
  /\ nSet = [i \in Inst |-> 0]
  /\ setSince = [i \in Inst |-> {}]
  /\ early = [i \in Inst |-> {}]
  /\ calls = 0
  /\ run = [i \in Inst |-> IdleRun]
  /\ blocks = 0
  /\ streak = [i \in Inst |-> NoStreak]
  /\ dlog = [i \in Inst |-> << >>]
  /\ simple = [k \in Inst |-> NoSimple]
  /\ app = NoApp

NextDsp ==
  \/ \E i \in Solo, m \in Messages : Post(i, m)
  \/ \E i \in Solo : Deliver(i)
  \/ \E i \in Solo : Process(i, FALSE)
  \/ \E i \in Solo, b \in InputBlocks : BeginBlock(i, b)
  \/ \E i \in Solo : SampleIter(i)
  \/ \E i \in Solo : EndBlock(i)

\* the processor of one ready instance, its blocks rendered sample by sample
\* while messages are posted and delivered
SpecDsp == InitDsp /\ [][NextDsp]_vars

\* values a caller hands to the simple filter's setters, update and constructor
SimpleCenterVals == {5, 1000, 30000}
SimpleSpanVals == {-100, 300}
SimpleQVals == {1000, 120000}
SimpleUpdateArgs ==
  { [center |-> 1000, span |-> 300], [span |-> 25000], [center |-> 5] }
SimpleOptionSets == { << >>, [center |-> 1200, span |-> 400, q |-> 120000] }

\* nothing constructed; the page's context resolves or does not
InitSimple ==
  /\ sampleRate \in SampleRates
  /\ workletLoaded = FALSE
  /\ addModuleCalls = 0
  /\ ctx = NoContexts
  /\ pc = [i \in Inst |-> "unborn"]
  /\ options = [i \in Inst |-> NoOptions]
  /\ workletNode = [i \in Inst |-> FALSE]
  /\ params = [i \in Inst |-> NoOptions]
  /\ connIn = [i \in Inst |-> FALSE]
  /\ connOut = [i \in Inst |-> FALSE]
  /\ disposed = [i \in Inst |-> FALSE]
  /\ port = [i \in Inst |-> << >>]
  /\ proc = [i \in Inst |-> NewProcessor]
  /\ blk = [i \in Inst |-> NoBlock]
  /\ nSet = [i \in Inst |-> 0]
  /\ setSince = [i \in Inst |-> {}]
  /\ early = [i \in Inst |-> {}]
  /\ calls = 0
  /\ run = [i \in Inst |-> IdleRun]
  /\ blocks = 0
  /\ streak = [i \in Inst |-> NoStreak]
  /\ dlog = [i \in Inst |-> << >>]
  /\ simple = [k \in Inst |-> NoSimple]
  /\ \E r \in BOOLEAN : app = [NoApp EXCEPT !.raw = r]

NextSimple ==
  \/ \E k \in Solo, o \in SimpleOptionSets : SimpleConstruct(k, o)
  \/ \E k \in Solo, v \in SimpleCenterVals : SimpleSetCenter(k, v)
  \/ \E k \in Solo, v \in SimpleSpanVals : SimpleSetSpan(k, v)
  \/ \E k \in Solo, v \in SimpleQVals : SimpleSetQ(k, v)
  \/ \E k \in Solo, a \in SimpleUpdateArgs : SimpleUpdate(k, a)
  \/ \E k \in Solo : SimpleDispose(k)

\* one SimpleThreeBandFilter under its constructor, setters, update and dispose
SpecSimple == InitSimple /\ [][NextSimple]_vars

\* params.synthFilterFrequency / Span / Q as the sliders or a saved state
\* hand them over
AppSettings ==
  { [frequency |-> 10, span |-> 5000, q |-> 120000],
    [frequency |-> 1200, span |-> 400, q |-> 500000] }

\* generateSoundscape about to select its filter, on a page with or without a
\* resolvable context, an audio worklet and a working Tone.js
InitApp ==
  /\ sampleRate \in SampleRates
  /\ workletLoaded \in BOOLEAN
  /\ addModuleCalls = 0
  /\ ctx = IF workletLoaded THEN [NoContexts EXCEPT !.registered = {1}]
                            ELSE NoContexts
  /\ pc = [i \in Inst |-> "unborn"]
  /\ options = [i \in Inst |-> NoOptions]
  /\ workletNode = [i \in Inst |-> FALSE]
  /\ params = [i \in Inst |-> NoOptions]
  /\ connIn = [i \in Inst |-> FALSE]
  /\ connOut = [i \in Inst |-> FALSE]
  /\ disposed = [i \in Inst |-> FALSE]
  /\ port = [i \in Inst |-> << >>]
  /\ proc = [i \in Inst |-> NewProcessor]
  /\ blk = [i \in Inst |-> NoBlock]
  /\ nSet = [i \in Inst |-> 0]
  /\ setSince = [i \in Inst |-> {}]
  /\ early = [i \in Inst |-> {}]
  /\ calls = 0
  /\ run = [i \in Inst |-> IdleRun]
  /\ blocks = 0
  /\ streak = [i \in Inst |-> NoStreak]
  /\ dlog = [i \in Inst |-> << >>]
  /\ simple = [k \in Inst |-> NoSimple]
  /\ \E r, w, t, x \in BOOLEAN :
       app = [NoApp EXCEPT !.raw = r, !.worklet = w, !.toneWorklet = t,
                           !.simpleThrows = x]

\* settings records a control of the page hands to applySynthFilterSettings
PartialSettings ==
  { << >>,
    [frequency |-> 10],
    [span |-> 5000, q |-> 500000],
    [frequency |-> 7000, span |-> 10, q |-> 1000] }

NextApp ==
  \/ \E p \in AppSettings : SelectStart(AppInst, p)
  \/ AddModuleResolve(AppInst)
  \/ AddModuleReject(AppInst)
  \/ NodeCreationFails(AppInst)
  \/ SelectResume(AppInst)
  \/ \E s \in PartialSettings : ApplySettings(s)
  \/ Deliver(AppInst)
  \/ Process(AppInst, TRUE)

\* one run of generateSoundscape's filter selection, and the page's controls
SpecApp == InitApp /\ [][NextApp]_vars

\* a page with a context and an audio worklet, nothing set up yet
InitOverlap ==
  /\ Init
  /\ app.raw

NextOverlap ==
  \/ \E c \in Inst, p \in AppSettings : SelectStart(c, p)
  \/ \E c \in Inst : GenCleanup(c)
  \/ \E c \in Inst : ~MidSegment /\ AddModuleResolve(c)
  \/ \E c \in Inst : ~MidSegment /\ AddModuleReject(c)
  \/ \E c \in Inst : SelectResume(c)
  \/ Stop

\* generateSoundscape calls that overlap at await filterNode.ready(), and the
\* stop button
SpecOverlap == InitOverlap /\ [][NextOverlap]_vars

\* ---------------------------------------------------------------- claims

\* C1: setting center, span, q or feedback to v and then reading it returns v
\* clamped into the parameter's safe range: center into [20, 0.45*sampleRate],
\* span >= 0, q >= 0.1, feedback into [0, 1].
C1_RoundTripClamped ==
  [][\A i \in Inst :
       /\ \A v \in CenterVals : SetCenter(i, v) =>
            getCenter(i)' = Min((sampleRate * 45) \div 100, Max(20, v))
       /\ \A v \in SpanVals : SetSpan(i, v) => getSpan(i)' = Max(0, v)
       /\ \A v \in QVals : SetQ(i, v) => getQ(i)' = Max(QUnit \div 10, v)
       /\ \A v \in FeedbackVals : SetFeedback(i, v) =>
            getFeedback(i)' = Min(QUnit, Max(0, v))]_vars

\* C2: a setter or update call on a disposed instance changes neither what the
\* getters return, nor the processor's configuration, nor the posted messages.
C2_PostDisposeSettersInert ==
  [][\A i \in Inst :
       (disposed[i] /\ nSet'[i] # nSet[i]) =>
          /\ options'[i] = options[i]
          /\ proc'[i] = proc[i]
          /\ port'[i] = port[i]]_vars

\* C3: once dispose() has been called the instance holds no worklet node and
\* no input -> worklet -> output routing, in every later state.
C3_DisposedTerminal ==
  \A i \in Inst :
    disposed[i] => (~workletNode[i] /\ ~connIn[i] /\ ~connOut[i])

\* C4: on one context audioWorklet.addModule is invoked at most once, however
\* many instances are constructed and however their _initWorklet runs interleave.
C4_AddModuleOnce == addModuleCalls <= 1

\* C5: the feedback coefficient a processed block uses lies in [0, 1].
C5_FeedbackInUnitRange ==
  \A i \in Inst :
    blk[i].ran => (0 <= blk[i].feedback /\ blk[i].feedback <= QUnit)

\* C6: the damping coefficient a processed block uses satisfies
\* 0 < alpha2 <= 10, that is alpha2 = 1/max(q, 0.1).
C6_Alpha2Bounded ==
  \A i \in Inst :
    blk[i].ran =>
      /\ blk[i].alpha2.den > 0
      /\ blk[i].alpha2.num > 0
      /\ blk[i].alpha2.num <= 10 * blk[i].alpha2.den

\* C7: the band frequencies of a processed block are ordered and in range:
\* 20 <= low <= centre <= high <= 0.45*sampleRate.
C7_BandsOrdered ==
  \A i \in Inst :
    blk[i].ran =>
      /\ 20 <= blk[i].lowF
      /\ blk[i].lowF <= blk[i].centreF
      /\ blk[i].centreF <= blk[i].highF
      /\ 100 * blk[i].highF <= 45 * sampleRate

\* C8 as stated: low and high are clamp(centerFreq -/+ span) taken from the
\* unclamped centerFreq, centre is clamp(centerFreq).
C8_BandsFromUnclampedCentre ==
  \A i \in Inst :
    blk[i].ran =>
      LET nyq == (sampleRate * 45) \div 100
          c   == blk[i].centreFreq
          s   == blk[i].span
      IN  /\ blk[i].lowF = Min(nyq, Max(20, c - s))
          /\ blk[i].centreF = Min(nyq, Max(20, c))
          /\ blk[i].highF = Min(nyq, Max(20, c + s))

\* C8 amended: centre = clamp(centerFreq), and low and high are
\* clamp(centre -/+ span) taken from the clamped centre; sr = 48000,
\* centerFreq = 600, span = 300 gives 300, 600, 900.
C8_BandsFromClampedCentre ==
  \A i \in Inst :
    blk[i].ran =>
      LET nyq == (sampleRate * 45) \div 100
          c   == Min(nyq, Max(20, blk[i].centreFreq))
          s   == blk[i].span
      IN  /\ blk[i].centreF = c
          /\ blk[i].lowF = Min(nyq, Max(20, c - s))
          /\ blk[i].highF = Min(nyq, Max(20, c + s))
          /\ (sampleRate = 48000 /\ blk[i].centreFreq = 600 /\ s = 300) =>
               (blk[i].lowF = 300 /\ blk[i].centreF = 600 /\ blk[i].highF = 900)

\* a block processed with a centre frequency below the floor and span 300
C8_Witness ==
  \E i \in Inst :
    /\ blk[i].ran
    /\ blk[i].centreFreq = 5
    /\ blk[i].span = 300
    /\ blk[i].highF = 320

\* C9: with no setter called, a processed block uses the centre frequency,
\* span, q and feedback of the construction options (defaults where omitted).
C9_OptionsReachProcessor ==
  \A i \in Inst :
    (blk[i].ran /\ nSet[i] = 0) =>
      /\ blk[i].centreFreq = options[i].center
      /\ blk[i].span = options[i].span
      /\ blk[i].alpha2.num * options[i].q = QUnit * blk[i].alpha2.den
      /\ blk[i].feedback = options[i].feedback

\* C10: between ready() resolving and dispose(), once every posted message is
\* delivered, each processor field that was set holds the value most recently
\* set for it, the value the getter returns (q as the damping 1/max(q, 0.0001)).
C10_LastSetWins ==
  \A i \in Inst :
    (pc[i] = "ready" /\ ~disposed[i] /\ port[i] = << >>) =>
      /\ "center" \in setSince[i] => proc[i].centreFreq = getCenter(i)
      /\ "span" \in setSince[i] => proc[i].span = getSpan(i)
      /\ "q" \in setSince[i] =>
           proc[i].alpha2.num * Max(1, getQ(i)) = QUnit * proc[i].alpha2.den
      /\ "feedback" \in setSince[i] => proc[i].feedback = getFeedback(i)

\* two setter calls after ready(), all messages delivered, q set last to 0.5
C10_Witness ==
  \E i \in Inst :
    /\ pc[i] = "ready" /\ ~disposed[i] /\ port[i] = << >>
    /\ nSet[i] = 2
    /\ setSince[i] = {"q"}
    /\ getQ(i) = 5000
    /\ proc[i].alpha2 = [num |-> QUnit, den |-> 5000]

\* C15: dispose() on an instance with a worklet node first posts the
\* feedback-zero update, then disconnects the routing, and only then releases
\* an owned resource (the base-class dispose of input/output, the node reference).
C15_DisposeOrder ==
  \A i \in Inst :
    (\E k \in 1..Len(dlog[i]) : dlog[i][k] = "post feedback 0") =>
      LET Pos(x) == CHOOSE k \in 1..Len(dlog[i]) : dlog[i][k] = x
      IN  /\ Pos("post feedback 0") < Pos("input.disconnect")
          /\ Pos("post feedback 0") < Pos("worklet.disconnect")
          /\ \A r \in {"super.dispose", "workletNode = null"} :
               /\ Pos("input.disconnect") < Pos(r)
               /\ Pos("worklet.disconnect") < Pos(r)

\* C16: the ready() promise resolves only with the implementation fully wired
\* (node exists, input -> worklet and worklet -> output connected); when
\* _initWorklet fails it rejects and no routing exists; before it settles
\* nothing is connected.
C16_ReadyMeansWired ==
  [][\A i \in Inst :
       /\ (pc[i] # "ready" /\ pc'[i] = "ready") =>
            (workletNode'[i] /\ connIn'[i] /\ connOut'[i])
       /\ pc'[i] = "failed" =>
            (~workletNode'[i] /\ ~connIn'[i] /\ ~connOut'[i])
       /\ pc'[i] \in {"unborn", "loading"} =>
            (~workletNode'[i] /\ ~connIn'[i] /\ ~connOut'[i])]_vars

\* ready() resolved after a pending addModule, the instance wired
C16_Witness ==
  \E i \in Inst :
    /\ pc[i] = "ready" /\ addModuleCalls = 1
    /\ workletNode[i] /\ connIn[i] /\ connOut[i]

\* C11: a delivered update message leaves each of centre frequency, span,
\* damping and feedback whose field it lacks at its previous value, and a
\* message of another type leaves the whole processor, the dirty flag
\* included, as it was.
C11_OnlyProvidedFieldsChange ==
  [][\A i \in Solo : Deliver(i) =>
       LET d == NextMessage(port[i])
       IN  IF d.type = "update"
           THEN /\ "center" \notin DOMAIN d =>
                     proc'[i].centreFreq = proc[i].centreFreq
                /\ "span" \notin DOMAIN d => proc'[i].span = proc[i].span
                /\ "q" \notin DOMAIN d => proc'[i].alpha2 = proc[i].alpha2
                /\ "feedback" \notin DOMAIN d =>
                     proc'[i].feedback = proc[i].feedback
           ELSE proc'[i] = proc[i]]_vars

\* a processor configured 8000 / 0 / q 0.5 / 0.05 after the one message
\* {center: 30000}: only its centre frequency moved
C11_Witness ==
  /\ calls = 1
  /\ port[1] = << >>
  /\ blocks = 0
  /\ proc[1].recalc
  /\ proc[1].centreFreq = 30000
  /\ proc[1].span = 0
  /\ proc[1].alpha2 = Alpha2Of(5000)
  /\ proc[1].feedback = 500

\* C12: a process call on an absent or zero-channel input leaves the six
\* integrator states, the three alpha1 coefficients, alpha2, feedback and the
\* dirty flag as they were, writes nothing to the output and returns true.
C12_EmptyInputSkipped ==
  [][\A i \in Solo : Process(i, FALSE) =>
       /\ proc'[i] = proc[i]
       /\ run'[i].outCh = << >>
       /\ run'[i].ret = "true"]_vars

\* a skipped call on a processor whose flag is set and whose states are not 0
C12_Witness ==
  /\ run[1].last = "skipped"
  /\ run[1].ret = "true"
  /\ proc[1].recalc
  /\ proc[1].lowS1 # 0

\* C19: while a block is in its sample loop the recalculation has run at most
\* once, before the first sample; the loop's alpha1 values, alpha2 and
\* feedback are those of the configuration the processor had when the block
\* started, messages delivered before it included, and no step of the loop
\* changes them or the processor's configuration, whatever is posted meanwhile.
C19_CoefficientsFixedPerBlock ==
  [][\A i \in Solo :
       /\ run'[i].at = "loop" =>
            LET c == UpdateCoefficients(proc'[i], sampleRate)
                L == run'[i].L
            IN  /\ run'[i].recalcs <= 1
                /\ L.lowA = Alpha1Of(c.lowF, sampleRate)
                /\ L.centreA = Alpha1Of(c.centreF, sampleRate)
                /\ L.highA = Alpha1Of(c.highF, sampleRate)
                /\ L.alpha2 = proc'[i].alpha2
                /\ L.fb = proc'[i].feedback
       /\ (run[i].at = "loop" /\ run'[i].at = "loop") =>
            /\ run'[i].recalcs = run[i].recalcs
            /\ run'[i].L.lowA = run[i].L.lowA
            /\ run'[i].L.centreA = run[i].L.centreA
            /\ run'[i].L.highA = run[i].L.highA
            /\ run'[i].L.alpha2 = run[i].L.alpha2
            /\ run'[i].L.fb = run[i].L.fb
            /\ proc'[i] = proc[i]
       /\ (run[i].at = "idle" /\ run'[i].at = "loop") =>
            run'[i].recalcs = (IF proc[i].recalc THEN 1 ELSE 0)]_vars

\* the second sample of a block that recomputed for a delivered {center: 30000}
\* while a further message waits on the port
C19_Witness ==
  /\ run[1].at = "loop"
  /\ run[1].k = 1
  /\ run[1].recalcs = 1
  /\ proc[1].centreFreq = 30000
  /\ run[1].L.centreA = Alpha1Of(ClampFreq(30000, sampleRate), sampleRate)
  /\ port[1] # << >>

\* the cached coefficients of p are what _updateCoefficients gives for p's
\* centre frequency and span
CoefficientsCurrent(p, sr) ==
  LET c == UpdateCoefficients(p, sr)
  IN  /\ Alpha1Of(p.lowF, sr) = Alpha1Of(c.lowF, sr)
      /\ Alpha1Of(p.centreF, sr) = Alpha1Of(c.centreF, sr)
      /\ Alpha1Of(p.highF, sr) = Alpha1Of(c.highF, sr)

\* C20: whenever the dirty flag is false the three cached alpha1 coefficients
\* are the calculator's result for the current centre frequency and span;
\* delivering an update message sets the flag; and the flag goes from set to
\* clear only in the step that enters a non-empty block.
C20_CleanMeansCurrent ==
  /\ \A i \in Solo : ~proc[i].recalc => CoefficientsCurrent(proc[i], sampleRate)
  /\ [][\A i \in Solo :
          /\ ~proc'[i].recalc => CoefficientsCurrent(proc'[i], sampleRate)
          /\ (Deliver(i) /\ NextMessage(port[i]).type = "update") =>
               proc'[i].recalc
          /\ (proc[i].recalc /\ ~proc'[i].recalc) =>
               /\ run[i].at = "idle"
               /\ run'[i].at = "loop"
               /\ run'[i].inCh # << >>
               /\ run'[i].recalcs = 1]_vars

\* a block has been rendered after {span: 0, q: 2, feedback: 0} was delivered:
\* the flag is clear and the three bands sit on the centre
C20_Witness ==
  /\ run[1].last = "processed"
  /\ port[1] = << >>
  /\ ~proc[1].recalc
  /\ proc[1].alpha2 = Alpha2Of(20000)
  /\ proc[1].span = 0
  /\ proc[1].lowF = proc[1].centreF
  /\ proc[1].highF = proc[1].centreF

\* C18: with feedback 0, q >= 0.5 and an all-zero input block, a sample step
\* leaves none of the six integrator states larger in magnitude than it was.
C18_StatesNeverGrow ==
  [][\A i \in Solo :
       (/\ SampleIter(i)
        /\ run[i].L.fb = 0
        /\ 2 * run[i].L.alpha2.den >= run[i].L.alpha2.num
        /\ \A k \in 1..Len(run[i].inCh) : run[i].inCh[k] = 0) =>
         /\ Abs(run'[i].L.lowS1) <= Abs(run[i].L.lowS1)
         /\ Abs(run'[i].L.lowS2) <= Abs(run[i].L.lowS2)
         /\ Abs(run'[i].L.centreS1) <= Abs(run[i].L.centreS1)
         /\ Abs(run'[i].L.centreS2) <= Abs(run[i].L.centreS2)
         /\ Abs(run'[i].L.highS1) <= Abs(run[i].L.highS1)
         /\ Abs(run'[i].L.highS2) <= Abs(run[i].L.highS2)]_vars

\* C17 as stated: the stages of a constructed filter sit on
\* clamp(center - span), clamp(center) and clamp(center + span), each clamped
\* to [20, nyquist], and all three carry the resonance max(q, 0.5).
C17_StagesFromRawCentre ==
  \A k \in Inst : simple[k].made > 0 =>
    /\ simple[k].low = Min(SimpleNyquist, Max(20, simple[k].options.center
                                                  - simple[k].options.span))
    /\ simple[k].centre = Min(SimpleNyquist, Max(20, simple[k].options.center))
    /\ simple[k].high = Min(SimpleNyquist, Max(20, simple[k].options.center
                                                   + simple[k].options.span))
    /\ simple[k].lowQ = Max(5000, simple[k].options.q)
    /\ simple[k].centreQ = simple[k].lowQ
    /\ simple[k].highQ = simple[k].lowQ

\* C17 amended: with centre = clamp(center) and s = max(0, span), the stages
\* sit on max(20, centre - s), centre and min(nyquist, centre + s), all three
\* within [20, nyquist], and all three carry the resonance max(q, 0.5).
C17_StagesFromClampedCentre ==
  \A k \in Inst : simple[k].made > 0 =>
    LET centre == Min(SimpleNyquist, Max(20, simple[k].options.center))
        s      == Max(0, simple[k].options.span)
    IN  /\ simple[k].low = Max(20, centre - s)
        /\ simple[k].centre = centre
        /\ simple[k].high = Min(SimpleNyquist, centre + s)
        /\ \A f \in {simple[k].low, simple[k].centre, simple[k].high} :
             20 <= f /\ f <= SimpleNyquist
        /\ simple[k].lowQ = Max(5000, simple[k].options.q)
        /\ simple[k].centreQ = simple[k].lowQ
        /\ simple[k].highQ = simple[k].lowQ

\* center set to 5 and span to 300: the high stage sits on 320, not on 305
C17_Witness ==
  /\ simple[1].made > 0
  /\ calls > 0
  /\ simple[1].options.center = 5
  /\ simple[1].options.span = 300
  /\ simple[1].low = 20
  /\ simple[1].high = 320

\* C13: once the probe has returned false, filter selection has constructed no
\* ThreeSistersSVF and called addModule not once, and where it has ended
\* synthFilter is a SimpleThreeBandFilter, synthFilterIsSVF is false and the
\* filter's ready() has resolved with no module load behind it.
C13_ProbeFalseNeverTriesSVF ==
  (app.call[AppInst].gpc # "idle" /\ ~app.call[AppInst].supportsSVF) =>
    /\ app.call[AppInst].svfMade = 0
    /\ pc[AppInst] = "unborn"
    /\ addModuleCalls = 0
    /\ app.call[AppInst].gpc = "done" =>
         /\ app.synthFilter = SimpleOf(AppInst)
         /\ app.call[AppInst].filterNode = "simple"
         /\ ~app.synthFilterIsSVF
         /\ simple[AppInst].made = 1
         /\ simple[AppInst].ready = "resolved"

\* selection ended on a page whose context resolves but has no audio worklet
C13_Witness ==
  /\ app.call[AppInst].gpc = "done"
  /\ app.raw /\ ~app.worklet
  /\ ~app.call[AppInst].supportsSVF
  /\ app.synthFilter = SimpleOf(AppInst)
  /\ simple[AppInst].ready = "resolved"

\* C14: the ThreeSistersSVF is constructed at most once and the
\* SimpleThreeBandFilter at most once; when the probe returned true and the
\* ThreeSistersSVF failed, the failure was caught, the failed instance is
\* disposed, one SimpleThreeBandFilter was tried, synthFilterIsSVF is false,
\* and an error has left the selection exactly when that constructor threw.
C14_OneFallbackAttempt ==
  /\ app.call[AppInst].svfMade <= 1
  /\ app.call[AppInst].simpleTried <= 1
  /\ simple[AppInst].made <= 1
  /\ app.call[AppInst].gpc = "threw" => app.simpleThrows
  /\ (app.call[AppInst].gpc \in {"done", "threw"} /\ app.call[AppInst].supportsSVF
        /\ pc[AppInst] = "failed") =>
       /\ app.call[AppInst].caught = 1
       /\ disposed[AppInst]
       /\ app.call[AppInst].svfMade = 1
       /\ app.call[AppInst].simpleTried = 1
       /\ ~app.synthFilterIsSVF
       /\ app.call[AppInst].gpc = "threw" <=> app.simpleThrows
       /\ app.call[AppInst].gpc = "done" => (app.synthFilter = SimpleOf(AppInst) /\ simple[AppInst].made = 1)

\* addModule was rejected, the instance disposed, the simple filter in place
C14_Witness ==
  /\ app.call[AppInst].gpc = "done"
  /\ app.call[AppInst].supportsSVF
  /\ pc[AppInst] = "failed"
  /\ addModuleCalls = 1
  /\ disposed[AppInst]
  /\ app.synthFilter = SimpleOf(AppInst)
  /\ simple[AppInst].made = 1

\* C21: a sample step of process is the reference step: the shared drive is
\* x + (lowS1 + centreS1 + highS1) * feedback, the three drives add highS1,
\* lowS1 and centreS1 times feedback, all read from the states the sample
\* started with; each band computes hp = drive - s2 - alpha2 * s1,
\* bp = alpha1 * hp + s1, lp = alpha1 * bp + s2 and keeps bp, lp as its new
\* s1, s2; the output sample is the mean of the three new bp values.
C21_SampleStepIsReference ==
  [][\A i \in Solo : SampleIter(i) =>
       LET L  == run[i].L
           x  == run[i].inCh[run[i].k + 1]
           sh == x + RDiv((L.lowS1 + L.centreS1 + L.highS1) * L.fb, QUnit)
           dL == sh + RDiv(L.highS1 * L.fb, QUnit)
           dC == sh + RDiv(L.lowS1 * L.fb, QUnit)
           dH == sh + RDiv(L.centreS1 * L.fb, QUnit)
           hL == dL - L.lowS2 - RDiv(L.alpha2.num * L.lowS1, L.alpha2.den)
           bL == RDiv(L.lowA * hL, DspUnit) + L.lowS1
           lL == RDiv(L.lowA * bL, DspUnit) + L.lowS2
           hC == dC - L.centreS2 - RDiv(L.alpha2.num * L.centreS1, L.alpha2.den)
           bC == RDiv(L.centreA * hC, DspUnit) + L.centreS1
           lC == RDiv(L.centreA * bC, DspUnit) + L.centreS2
           hH == dH - L.highS2 - RDiv(L.alpha2.num * L.highS1, L.alpha2.den)
           bH == RDiv(L.highA * hH, DspUnit) + L.highS1
           lH == RDiv(L.highA * bH, DspUnit) + L.highS2
           N  == run'[i].L
       IN  /\ N.lowS1 = bL /\ N.lowS2 = lL
           /\ N.centreS1 = bC /\ N.centreS2 = lC
           /\ N.highS1 = bH /\ N.highS2 = lH
           /\ run'[i].outCh = Append(run[i].outCh, RDiv(bL + bC + bH, 3))]_vars

\* the first sample of a block done with feedback 0.05, a non-zero input and
\* non-zero low and centre states
C21_Witness ==
  /\ run[1].at = "loop"
  /\ run[1].k = 1
  /\ run[1].inCh[1] = 1000
  /\ run[1].L.fb = 500
  /\ proc[1].lowS2 = 1000
  /\ proc[1].centreS1 = -500
  /\ run[1].L.lowS1 # 0

\* initial band states tried for the band that differs between the two runs
PerturbedStates == {<<0, 0>>, <<1000, -500>>, <<-1234, 777>>}

C22_StatesWrittenOnlyByProcess ==
  [][\A i \in Solo :
       LET six(p) == <<p.lowS1, p.lowS2, p.centreS1, p.centreS2,
                       p.highS1, p.highS2>>
       IN  /\ Deliver(i) => six(proc'[i]) = six(proc[i])
           /\ six(proc'[i]) # six(proc[i]) =>
                /\ run[i].at = "loop"
                /\ run'[i].at = "idle"
                /\ six(proc'[i]) = six(run[i].L)]_vars

\* an update was handled by a processor whose bands hold non-zero states: the
\* dirty flag is up, no block has read the new configuration yet, and the
\* states are still there
C22_Witness ==
  /\ proc[1].recalc
  /\ port[1] = << >>
  /\ calls > 0
  /\ proc[1].feedback = 0
  /\ proc[1].centreFreq = 8000
  /\ proc[1].centreS1 = -500
  /\ proc[1].highS2 = -1000

\* C26: a setter call made before the worklet node exists is not lost: once
\* ready() has resolved and every posted message is delivered, the processor
\* field has the value the getter returns (q as the damping 1/max(q, 0.0001)),
\* unless a later setter call replaced it.
C26_EarlySetReachesProcessor ==
  \A i \in Inst :
    (pc[i] = "ready" /\ ~disposed[i] /\ port[i] = << >>) =>
      /\ "center" \in early[i] \ setSince[i] => proc[i].centreFreq = getCenter(i)
      /\ "span" \in early[i] \ setSince[i] => proc[i].span = getSpan(i)
      /\ "q" \in early[i] \ setSince[i] =>
           proc[i].alpha2.num * Max(1, getQ(i)) = QUnit * proc[i].alpha2.den
      /\ "feedback" \in early[i] \ setSince[i] =>
           proc[i].feedback = getFeedback(i)

\* C27: update(center, span) takes effect as one change for the processor:
\* when the only call made on an instance is one update after ready(), no
\* block is processed with the new centre frequency together with the old span.
C27_UpdateIsOneChange ==
  \A i \in Inst :
    (nSet[i] = 1 /\ setSince[i] = {"center", "span"} /\ blk[i].ran) =>
      ~ /\ blk[i].centreFreq = getCenter(i)
        /\ blk[i].centreFreq # NewProcessor.centreFreq
        /\ blk[i].span = NewProcessor.span
        /\ blk[i].span # getSpan(i)

\* C23: block boundaries are invisible: with no update message handled in
\* between, the blocks processed one after the other have written the output
\* samples, and left the six band states, that one pass of the sample loop over
\* their concatenated input gives from the locals the first block started with.
C23_BlockBoundaryInvisible ==
  \A i \in Solo :
    (run[i].at = "idle" /\ streak[i].ins # << >>) =>
      LET r == RunSamples(streak[i].L0, streak[i].ins, 0, << >>)
      IN  /\ streak[i].outs = r.outCh
          /\ proc[i].lowS1 = r.L.lowS1 /\ proc[i].lowS2 = r.L.lowS2
          /\ proc[i].centreS1 = r.L.centreS1 /\ proc[i].centreS2 = r.L.centreS2
          /\ proc[i].highS1 = r.L.highS1 /\ proc[i].highS2 = r.L.highS2

\* two blocks with input processed back to back with feedback 0.05, no update
\* between them, the second returned
C23_Witness ==
  /\ run[1].at = "idle"
  /\ run[1].last = "processed"
  /\ streak[1].ins = <<1000, -500, 1000, -500>>
  /\ Len(streak[1].outs) = 4
  /\ proc[1].feedback = 500
  /\ proc[1].highS2 # 0

\* C25: the registered-module check is keyed by the audio context: an
\* instance that has reached new AudioWorkletNode(context, ...) finds the
\* processor module registered on that context, also when the flag was set by
\* a registration on another context.
C25_NodeOnRegisteredContext ==
  \A i \in Inst : ctx.tried[i] => ctx.of[i] \in ctx.registered

\* C24: applySynthFilterSettings forwards only clamped values: each value it
\* writes to the active filter lies in [80, 6000] Hz (frequency), [40, 1800]
\* Hz (span) and [2, 30] (q), on the ThreeSistersSVF path and on the
\* SimpleThreeBandFilter path; a field that is undefined in the settings is
\* not written; and with no filter the call changes nothing.
C24_ApplyForwardsClamped ==
  [][\A s \in PartialSettings : ApplySettings(s) =>
       LET f == app.synthFilter
           i == f.of
           inRange(fld, v) ==
             CASE fld = "center" ->
                    SynthFilterFrequencyMin <= v /\ v <= SynthFilterFrequencyMax
               [] fld = "span" -> SynthFilterSpanMin <= v /\ v <= SynthFilterSpanMax
               [] fld = "q" -> SynthFilterQMin <= v /\ v <= SynthFilterQMax
               [] OTHER -> FALSE
           given(fld) == IF fld = "center" THEN "frequency" \in DOMAIN s
                         ELSE fld \in DOMAIN s
       IN  CASE f.kind = "none" ->
                  UNCHANGED <<options, params, port, proc, simple, app>>
             [] f.kind = "svf" ->
                  /\ \A fld \in Fields :
                       IF given(fld)
                       THEN inRange(fld, options'[i][fld])
                       ELSE options'[i][fld] = options[i][fld]
                  /\ \A k \in (Len(port[i]) + 1)..Len(port'[i]) :
                       \A fld \in DOMAIN port'[i][k] \ {"type"} :
                         given(fld) /\ inRange(fld, port'[i][k][fld])
                  /\ UNCHANGED simple
             [] f.kind = "simple" ->
                  /\ \A fld \in SimpleFields :
                       IF given(fld)
                       THEN inRange(fld, simple'[i].options[fld])
                       ELSE simple'[i].options[fld] = simple[i].options[fld]
                  /\ UNCHANGED <<options, port>>]_vars

\* the page's control has handed {frequency: 7000, span: 10, q: 0.1} to a
\* ready ThreeSistersSVF: 6000, 40 and 2 were written and posted
C24_Witness ==
  /\ app.synthFilterIsSVF
  /\ app.synthFilter = SvfOf(AppInst)
  /\ calls = 1
  /\ options[AppInst].center = SynthFilterFrequencyMax
  /\ options[AppInst].span = SynthFilterSpanMin
  /\ options[AppInst].q = SynthFilterQMin
  /\ Len(port[AppInst]) >= 3

\* C28: once every generateSoundscape call under way has finished, each filter
\* a call has constructed is the current synthFilter or has been disposed: no
\* ThreeSistersSVF and no SimpleThreeBandFilter is left undisposed without
\* synthFilter referring to it.
C28_NoFilterLeftBehind ==
  (\A c \in Inst : app.call[c].gpc \in {"idle", "done", "threw"}) =>
    \A c \in Inst :
      /\ (pc[c] # "unborn" /\ ~disposed[c]) => app.synthFilter = SvfOf(c)
      /\ (simple[c].made > 0 /\ ~simple[c].disposed) =>
           app.synthFilter = SimpleOf(c)

\* C30: synthFilterIsSVF = true implies that synthFilter is a ThreeSistersSVF
\* that is not disposed and whose ready() has resolved: never null, never a
\* SimpleThreeBandFilter, never a disposed filter, never one still loading.
C30_FlagMeansReadySVF ==
  app.synthFilterIsSVF =>
    /\ app.synthFilter.kind = "svf"
    /\ pc[app.synthFilter.of] = "ready"
    /\ ~disposed[app.synthFilter.of]
    /\ workletNode[app.synthFilter.of]

\* two calls overlapped at await filterNode.ready(); both have finished and
\* the flag is up with the second call's filter in synthFilter
C30_Witness ==
  /\ \A c \in Inst : app.call[c].gpc = "done"
  /\ addModuleCalls = 2
  /\ app.synthFilterIsSVF
  /\ app.synthFilter = SvfOf(2)
  /\ pc[1] = "ready" /\ pc[2] = "ready"
====
